---------------------------- MODULE Spec2Model ----------------------------
(***************************************************************************)
(* Session-and-turn protocol of the research chat client                   *)
(* (src/chatbot-frontend/src/App.js).                                      *)
(*                                                                         *)
(* The component App keeps five pieces of React state (input, messages,    *)
(* turnId, chatSessionId, loading) and runs two kinds of asynchronous      *)
(* functions: startSession (once, from the mount effect) and changeEvent   *)
(* (once per click on the send button).  Each of them suspends at          *)
(* `await fetch(...)` and at `await response.json()`; everything between   *)
(* two suspension points runs atomically on the single JavaScript thread,  *)
(* so each action below is one such run-to-completion segment.             *)
(*                                                                         *)
(* Strings are sequences of one-character strings, so that trim() and      *)
(* toString() are computed and not assumed.                                *)
(***************************************************************************)
EXTENDS Integers, Sequences, FiniteSets

VARIABLES
    input,          \* useState("")    : text of the input box
    messages,       \* useState([])    : the transcript
    turnId,         \* useState(1)     : the turn counter
    chatSessionId,  \* useState(null)  : the stored session identifier
    loading,        \* useState(true)  : session start still running
    session,        \* position of the startSession coroutine
    pending,        \* positions of the changeEvent coroutines in flight
    fetchLog,       \* every request handed to fetch(), in call order
    calls,          \* history: number of changeEvent invocations so far
    overlapped      \* history: some send was invoked with another in flight

vars == << input, messages, turnId, chatSessionId, loading, session,
           pending, fetchLog, calls, overlapped >>

---------------------------------------------------------------------------
(* Bounds of the exploration *)

\* changeEvent is invoked at most this many times in a behaviour
MaxCalls == 3

\* at most this many of the invocations get past the guard and call fetch()
MaxSends == 2

---------------------------------------------------------------------------
(* JavaScript values *)

Undefined == [type |-> "undefined"]
Null      == [type |-> "null"]
Str(s)    == [type |-> "string", chars |-> s]
Obj(f)    == [type |-> "object", fields |-> f]

\* obj.key : the member, or undefined when the object has no such member
Get(v, key) == IF key \in DOMAIN v.fields THEN v.fields[key] ELSE Undefined

\* obj.key throws a TypeError when obj is null or undefined
GetThrows(v) == v.type \in {"null", "undefined"}

---------------------------------------------------------------------------
(* String.prototype.trim and Number.prototype.toString *)

\* A string is a sequence of characters; a character is a one-character
\* string, and a character that has no TLA+ escape is written by its code
\* point, "U+00A0".
\*
\* The characters trim() strips: WhiteSpace and LineTerminator of ECMAScript
\* (TAB, VT, FF, SP, NBSP, ZWNBSP and the Unicode space separators; LF, CR,
\* LS, PS).
WhiteSpace ==
    { "\t", "U+000B", "\f", " ", "U+00A0", "U+FEFF",
      "U+1680", "U+2000", "U+2001", "U+2002", "U+2003", "U+2004", "U+2005",
      "U+2006", "U+2007", "U+2008", "U+2009", "U+200A", "U+202F", "U+205F",
      "U+3000",
      "\n", "\r", "U+2028", "U+2029" }

RECURSIVE TrimStart(_)
TrimStart(s) ==
    IF s = << >> THEN << >>
    ELSE IF Head(s) \in WhiteSpace THEN TrimStart(Tail(s)) ELSE s

RECURSIVE TrimEnd(_)
TrimEnd(s) ==
    IF s = << >> THEN << >>
    ELSE IF s[Len(s)] \in WhiteSpace THEN TrimEnd(SubSeq(s, 1, Len(s) - 1))
    ELSE s

Trim(s) == TrimEnd(TrimStart(s))

DigitChar == << "0", "1", "2", "3", "4", "5", "6", "7", "8", "9" >>

RECURSIVE ToString(_)
ToString(n) ==
    IF n < 10 THEN << DigitChar[n + 1] >>
    ELSE ToString(n \div 10) \o << DigitChar[(n % 10) + 1] >>

---------------------------------------------------------------------------
(* The environment: what the user types and what the backend answers *)

\* texts the user may have in the input box
Texts == { << >>,
           << " ", "\f", "U+00A0" >>,
           << "H", "i" >>,
           << "U+00A0", "o", "k", "\f" >> }

\* a body that is not JSON: response.json() rejects
NotJson == [kind |-> "invalid"]
\* a JSON body and the value response.json() resolves to
Json(v) == [kind |-> "json", value |-> v]

SessionIdText == << "a", "b", "c", "1", "2", "3" >>
ReplyText     == << "H", "i", " ", "t", "h", "e", "r", "e", "!" >>
DetailText    == << "o", "o", "p", "s" >>

\* a reply that arrives: fetch() resolves whatever the HTTP status is
Reply(status, body) == [status |-> status, body |-> body]

\* replies to the session-start request
StartReplies ==
    { Reply(200, Json(Obj([chat_session_id |-> Str(SessionIdText)]))),
      Reply(200, Json(Obj([detail |-> Str(DetailText)]))),
      Reply(200, Json(Null)),
      Reply(500, Json(Obj([chat_session_id |-> Str(SessionIdText)]))),
      Reply(500, NotJson) }

\* replies to a message request
ChatReplies ==
    { Reply(200, Json(Obj([response |-> Str(ReplyText)]))),
      Reply(200, Json(Obj([detail |-> Str(DetailText)]))),
      Reply(200, Json(Null)),
      Reply(500, Json(Obj([detail |-> Str(DetailText)]))),
      Reply(500, NotJson) }

---------------------------------------------------------------------------
(* Requests *)

StartUrl == "http://127.0.0.1:8000/session/start"
ChatUrl  == "http://127.0.0.1:8000/chat"

StartRequest ==
    [ url  |-> StartUrl,
      body |-> [ pid                 |-> "123456789",
                 study_id            |-> "study_001",
                 prolific_session_id |-> "sessionId",
                 qr_pre              |-> "qr_001",
                 experiment_id       |-> "exp_001" ] ]

\* the chat_session_id member of the message envelope
EnvelopeSessionId == Str(<< "X", "Y", "Z" >>)

\* the envelope numbering the turns from zero
EnvelopeZeroBasedTurn ==
    [ user_message    |-> Str(input),
      client_turn_id  |-> Str(ToString(turnId - 1)),
      chat_session_id |-> EnvelopeSessionId ]

\* the body changeEvent builds from the state of the render it runs in
Envelope ==
    [ user_message    |-> Str(input),
      client_turn_id  |-> Str(ToString(turnId)),
      chat_session_id |-> EnvelopeSessionId ]

ChatRequest == [ url |-> ChatUrl, body |-> Envelope ]

\* the positions in fetchLog of the requests to the message endpoint
ChatRequests == { i \in DOMAIN fetchLog : fetchLog[i].url = ChatUrl }

---------------------------------------------------------------------------
(* Messages *)

ErrorText ==
    << "E", "r", "r", "o", "r", " ", "s", "e", "n", "d", "i", "n", "g",
       " ", "m", "e", "s", "s", "a", "g", "e", "." >>

\* the user's text echoed after trim()
UserMessageTrimmed == [ sender |-> "user", text |-> Str(Trim(input)) ]
UserMessage  == [ sender |-> "user", text |-> Str(input) ]
BotMessage(data) == [ sender |-> "bot", text |-> Get(data, "response") ]
ErrorMessage == [ sender |-> "error", text |-> Str(ErrorText) ]

\* the new Message put in front of the transcript
PrependMessage(prev, m) == << m >> \o prev

\* setMessages(prev => [...prev, m])
AppendMessage(prev, m) == Append(prev, m)

\* a catch block that only logs, as the one of startSession does
TranscriptAfterSilentCatch(prev) == prev

\* a catch block that sets the transcript instead of updating it
TranscriptAfterResettingCatch(prev) == << ErrorMessage >>

\* setMessages(prev => [...prev, errorMessage])
TranscriptAfterCatch(prev) == AppendMessage(prev, ErrorMessage)

---------------------------------------------------------------------------
(* Initial state: the useState initial values, mount effect not yet run *)

InitialTurn == 1

Init ==
    /\ input = << >>
    /\ messages = << >>
    /\ turnId = InitialTurn
    /\ chatSessionId = Null
    /\ loading = TRUE
    /\ session = [pc |-> "effect", status |-> 0]
    /\ pending = << >>
    /\ fetchLog = << >>
    /\ calls = 0
    /\ overlapped = FALSE
---------------------------------------------------------------------------
(* startSession: the mount effect and its coroutine *)

\* the effect without its empty dependency list: due again after a render
EffectDueAfterEveryRender == session.pc \in {"effect", "done"}

\* useEffect(..., []) : the effect is due once, after the first commit
EffectDue == session.pc = "effect"

\* React runs the pending mount effect before it dispatches a user event
Mounted == session.pc # "effect"

\* useEffect body: startSession() runs up to `await fetch(...)`
useEffect ==
    /\ EffectDue
    /\ fetchLog' = Append(fetchLog, StartRequest)
    /\ session' = [pc |-> "fetch", status |-> 0]
    /\ UNCHANGED << input, messages, turnId, chatSessionId, loading,
                    pending, calls, overlapped >>

\* setLoading(false) at the end of the try block, with no finally
StartFetchRejectsWithoutFinally ==
    /\ session.pc = "fetch"
    /\ session' = [pc |-> "done", status |-> 0]
    /\ UNCHANGED << input, messages, turnId, chatSessionId, loading, pending,
                    fetchLog, calls, overlapped >>

\* fetch() rejects (network error): catch logs, finally clears loading
StartFetchRejects ==
    /\ session.pc = "fetch"
    /\ loading' = FALSE
    /\ session' = [pc |-> "done", status |-> 0]
    /\ UNCHANGED << input, messages, turnId, chatSessionId, pending,
                    fetchLog, calls, overlapped >>

\* fetch() resolves with a Response: startSession goes on to
\* `await response.json()`
StartFetchResolves(reply) ==
    /\ session.pc = "fetch"
    /\ session' = [pc |-> "json", status |-> reply.status, body |-> reply.body]
    /\ UNCHANGED << input, messages, turnId, chatSessionId, loading,
                    pending, fetchLog, calls, overlapped >>

\* the value setChatSessionId receives
StoredSessionId(data) == Get(data, "chat_session_id")

\* response.json() settles: on a parsed body the identifier is stored; a body
\* that is not JSON, or `data.chat_session_id` on null, lands in catch.
\* finally clears loading on every path.
StartJsonSettles ==
    /\ session.pc = "json"
    /\ IF session.body.kind = "invalid"
       THEN UNCHANGED chatSessionId
       ELSE IF GetThrows(session.body.value)
            THEN UNCHANGED chatSessionId
            ELSE chatSessionId' = StoredSessionId(session.body.value)
    /\ loading' = FALSE
    /\ session' = [pc |-> "done", status |-> 0]
    /\ UNCHANGED << input, messages, turnId, pending, fetchLog, calls,
                    overlapped >>

---------------------------------------------------------------------------
(* The input box *)

\* onChange={(e) => setInput(e.target.value)}
setInput(text) ==
    /\ Mounted
    /\ text # input
    /\ input' = text
    /\ UNCHANGED << messages, turnId, chatSessionId, loading, session,
                    pending, fetchLog, calls, overlapped >>

---------------------------------------------------------------------------
(* changeEvent: one exchange *)

\* the guard without trim(): only the empty string is refused
IsBlankWithoutTrim(s) == s = << >>

\* if(input.trim() === "") return;
IsBlank(s) == Trim(s) = << >>

\* the counter raised once by the request and once by the reply
TurnAfterSuccessTwice(t) == t + 2

\* setTurnId(prevTurnId => prevTurnId + 1)
TurnAfterSuccess(t) == t + 1

\* pending with the coroutine of request i at position p
WithPending(i, p) ==
    [k \in DOMAIN pending \cup {i} |-> IF k = i THEN p ELSE pending[k]]

\* pending without the coroutine of request i
WithoutPending(i) == [k \in DOMAIN pending \ {i} |-> pending[k]]

\* changeEvent up to `await fetch(...)`: the guard, the echo of the user's
\* text and the call of fetch().  The send button is disabled on
\* !input.trim() and on nothing else, so it only keeps away invocations the
\* guard refuses anyway; neither looks at loading or chatSessionId.
changeEvent ==
    /\ Mounted
    /\ calls < MaxCalls
    /\ IsBlank(input) \/ Cardinality(ChatRequests) < MaxSends
    /\ calls' = calls + 1
    /\ IF IsBlank(input)
       THEN UNCHANGED << input, messages, turnId, chatSessionId, loading,
                         session, pending, fetchLog, overlapped >>
       ELSE /\ messages' = AppendMessage(messages, UserMessage)
            /\ fetchLog' = Append(fetchLog, ChatRequest)
            /\ pending' = WithPending(Len(fetchLog) + 1,
                                      [pc |-> "fetch", status |-> 0])
            /\ overlapped' = (overlapped \/ DOMAIN pending # {})
            /\ UNCHANGED << input, turnId, chatSessionId, loading, session >>

\* a catch block that also drops the session
CatchDroppingSession(i) ==
    /\ messages' = TranscriptAfterCatch(messages)
    /\ pending' = WithoutPending(i)
    /\ chatSessionId' = Null
    /\ UNCHANGED << input, turnId, loading, session >>

\* the catch block of changeEvent
Catch(i) ==
    /\ messages' = TranscriptAfterCatch(messages)
    /\ pending' = WithoutPending(i)
    /\ UNCHANGED << input, turnId, chatSessionId, loading, session >>

\* the statements after `await response.json()` in the try block
Succeed(i, data) ==
    /\ messages' = AppendMessage(messages, BotMessage(data))
    /\ turnId' = TurnAfterSuccess(turnId)
    /\ input' = << >>
    /\ pending' = WithoutPending(i)
    /\ UNCHANGED << chatSessionId, loading, session >>

\* fetch() rejects (network error)
ChatFetchRejects(i) ==
    /\ pending[i].pc = "fetch"
    /\ Catch(i)
    /\ UNCHANGED << fetchLog, calls, overlapped >>

\* fetch() resolves with a Response: changeEvent goes on to
\* `await response.json()`
ChatFetchResolves(i, reply) ==
    /\ pending[i].pc = "fetch"
    /\ pending' = WithPending(i, [pc |-> "json", status |-> reply.status,
                                  body |-> reply.body])
    /\ UNCHANGED << input, messages, turnId, chatSessionId, loading,
                    session, fetchLog, calls, overlapped >>

\* response.json() settles
ChatJsonSettles(i) ==
    /\ pending[i].pc = "json"
    /\ IF pending[i].body.kind = "invalid"
       THEN Catch(i)
       ELSE IF GetThrows(pending[i].body.value)
            THEN Catch(i)
            ELSE Succeed(i, pending[i].body.value)
    /\ UNCHANGED << fetchLog, calls, overlapped >>

---------------------------------------------------------------------------
(* The specification *)

Next ==
    \/ useEffect
    \/ StartFetchRejects
    \/ \E reply \in StartReplies : StartFetchResolves(reply)
    \/ StartJsonSettles
    \/ \E text \in Texts : setInput(text)
    \/ changeEvent
    \/ \E i \in DOMAIN pending : ChatFetchRejects(i)
    \/ \E i \in DOMAIN pending, reply \in ChatReplies :
          ChatFetchResolves(i, reply)
    \/ \E i \in DOMAIN pending : ChatJsonSettles(i)

Spec == Init /\ [][Next]_vars
---------------------------------------------------------------------------
(* Vocabulary of the properties *)

\* a success status (Response.ok); the component never reads it
Ok(status) == status >= 200 /\ status <= 299

\* Session.status of the specification, read off the state of the component
Initializing == loading
Ready        == ~loading /\ chatSessionId.type = "string"
Failed       == ~loading /\ chatSessionId.type # "string"

\* the session-start requests handed to fetch() so far
StartRequests == { i \in DOMAIN fetchLog : fetchLog[i].url = StartUrl }

\* number of exchanges invoked so far
Exchanges == Cardinality(ChatRequests)

Senders(who) == { k \in DOMAIN messages : messages[k].sender = who }

\* user, bot, user, bot, ...
Alternating ==
    \A k \in DOMAIN messages :
        messages[k].sender = IF k % 2 = 1 THEN "user" ELSE "bot"

\* every exchange invoked so far has resolved, and resolved with a bot Message
AllSucceeded == DOMAIN pending = {} /\ Senders("error") = {}

\* s consists of white space only (the empty string included)
WhiteSpaceOnly(s) == \A k \in DOMAIN s : s[k] \in WhiteSpace

\* this step ends the exchange of request i
Resolves(i) == i \in DOMAIN pending /\ i \notin DOMAIN pending'

\* a reply arrived for exchange i and its body is being read
ReplyArrived(i) == pending[i].pc = "json"

\* the reply has a JSON object body with a response member
HasResponse(p) ==
    /\ p.body.kind = "json"
    /\ p.body.value.type = "object"
    /\ "response" \in DOMAIN p.body.value.fields

\* the reply of exchange i is a success carrying a response
FullySuccessful(i) ==
    /\ ReplyArrived(i)
    /\ Ok(pending[i].status)
    /\ HasResponse(pending[i])

\* the backend call of exchange i failed: fetch() rejected (an exchange
\* leaves the position "fetch" for good only that way), or the reply that
\* arrived is not a success carrying a response
CallFailed(i) == pending[i].pc = "fetch" \/ ~FullySuccessful(i)

\* this step hands a message request to fetch()
Sends == ChatRequests' # ChatRequests

\* exchange i is the n-th exchange invoked; Message k is the n-th user Message
ExchangeRank(i) == Cardinality({ j \in ChatRequests : j <= i })
UserRank(k)     == Cardinality({ j \in Senders("user") : j <= k })

TheError == [ sender |-> "error", text |-> Str(ErrorText) ]

---------------------------------------------------------------------------
(* C1 *)

\* C1 as stated: whenever all N exchanges invoked so far have resolved
\* successfully, the turn counter is 1 + N and the transcript is 2N Messages
\* alternating user, bot, user, bot, ...
C1_AlternatingAfterSuccesses ==
    AllSucceeded =>
        /\ turnId = 1 + Exchanges
        /\ Len(messages) = 2 * Exchanges
        /\ Alternating

\* C1 (amended): whenever all N exchanges invoked so far have resolved
\* successfully, the turn counter is 1 + N and the transcript holds exactly
\* 2N Messages, N from the user and N from the bot; the senders alternate
\* user, bot, user, bot, ... when no exchange was invoked while another one
\* was still in flight.
C1_CounterAndTranscriptAfterSuccesses ==
    AllSucceeded =>
        /\ turnId = 1 + Exchanges
        /\ Len(messages) = 2 * Exchanges
        /\ Cardinality(Senders("user")) = Exchanges
        /\ Cardinality(Senders("bot")) = Exchanges
        /\ ~overlapped => Alternating

\* two exchanges, one after the other, both resolved successfully
C1_Witness ==
    /\ AllSucceeded
    /\ ~overlapped
    /\ Exchanges = 2
    /\ Len(messages) = 4
    /\ turnId = 3

---------------------------------------------------------------------------
(* C2 *)

\* C2: when the backend call of an exchange fails (fetch() rejects, the
\* reply has a non-success status, or its body is malformed or has no
\* response member), the step that ends the exchange appends exactly one
\* Message, the error Message "Error sending message.", behind the user
\* Message of that exchange, and leaves the turn counter as it was, so that
\* the next exchange sent carries the same, unadvanced, turn number; every
\* message request carries the turn counter of the moment it is sent.
C2_FailedCallAppendsOneError ==
    [][ /\ \A i \in DOMAIN pending :
              (Resolves(i) /\ CallFailed(i)) =>
                  /\ messages' = Append(messages, TheError)
                  /\ \E k \in Senders("user") :
                        /\ UserRank(k) = ExchangeRank(i)
                        /\ messages[k].text = fetchLog[i].body.user_message
                  /\ turnId' = turnId
                  /\ Envelope'.client_turn_id = Envelope.client_turn_id
        /\ Sends =>
              fetchLog'[Len(fetchLog')].body.client_turn_id
                  = Str(ToString(turnId))
      ]_vars

---------------------------------------------------------------------------
(* C3 *)

\* C3: once session start has failed, no message request is issued any more.
C3_NoSendAfterFailedStart ==
    [][ (session.pc = "done" /\ Failed) => ~Sends ]_vars

---------------------------------------------------------------------------
(* C4 *)

\* C4: an invocation of the send handler while the input holds nothing but
\* white space appends nothing to the transcript, issues no request and
\* leaves the turn counter (and the input) as they were.
C4_BlankSubmitIsNoOp ==
    [][ (calls' # calls /\ WhiteSpaceOnly(input)) =>
            /\ messages' = messages
            /\ fetchLog' = fetchLog
            /\ pending' = pending
            /\ turnId' = turnId
            /\ input' = input
      ]_vars

\* the handler has been invoked twice, and nothing was sent or appended;
\* the input holds white space
C4_Witness ==
    /\ calls = 2
    /\ input = << " ", "\f", "U+00A0" >>
    /\ ChatRequests = {}
    /\ messages = << >>
    /\ turnId = 1

---------------------------------------------------------------------------
(* C5 *)

\* C5: when the reply to a message request has a non-success status, or its
\* body has no response member, the step that ends the exchange appends the
\* error Message (and no bot Message) and leaves the turn counter as it was.
C5_BadReplyIsFailure ==
    [][ \A i \in DOMAIN pending :
            ( /\ Resolves(i)
              /\ ReplyArrived(i)
              /\ (~Ok(pending[i].status) \/ ~HasResponse(pending[i])) ) =>
                /\ messages' = Append(messages, TheError)
                /\ turnId' = turnId
      ]_vars

---------------------------------------------------------------------------
(* C6 *)

\* C6: while the session-start request is pending (loading is true), no
\* message request is issued and no Message is appended.
C6_NoSendWhileInitializing ==
    [][ Initializing => (~Sends /\ messages' = messages) ]_vars

---------------------------------------------------------------------------
(* C7 *)

\* C7: a message request that is sent while the session is Ready carries, as
\* chat_session_id, the identifier the component holds.
C7_RequestCarriesStoredSessionId ==
    [][ (Ready /\ Sends) =>
            fetchLog'[Len(fetchLog')].body.chat_session_id = chatSessionId
      ]_vars

---------------------------------------------------------------------------
(* C8 *)

\* the reply being read by startSession is a success carrying chat_session_id
StartSucceeded ==
    /\ session.pc = "json"
    /\ Ok(session.status)
    /\ session.body.kind = "json"
    /\ session.body.value.type = "object"
    /\ "chat_session_id" \in DOMAIN session.body.value.fields

\* C8: the step that ends startSession leaves the session Ready, holding the
\* identifier of the reply, when the reply is a success carrying
\* chat_session_id; on every other outcome it leaves it Failed, with no
\* identifier stored.
C8_ReadyOnlyOnSuccessfulStart ==
    [][ (session.pc # "done" /\ session'.pc = "done") =>
            IF StartSucceeded
            THEN /\ Ready'
                 /\ chatSessionId' = session.body.value.fields.chat_session_id
            ELSE Failed'
      ]_vars

---------------------------------------------------------------------------
(* C9 *)

\* C9: exactly one session-start request has been issued once the mount
\* effect has run, none before, and never a second one, whatever the outcome
\* of the first.
C9_StartIssuedOnce ==
    Cardinality(StartRequests) = IF Mounted THEN 1 ELSE 0

\* session start has failed, the user has gone on to use the view, and there
\* is still the one session-start request
C9_Witness ==
    /\ session.pc = "done"
    /\ Failed
    /\ calls = MaxCalls
    /\ Cardinality(StartRequests) = 1

---------------------------------------------------------------------------
(* C10 *)

\* C10: the turn counter starts at 1; every step leaves it unchanged or
\* raises it by exactly one, and a step raises it only by resolving an
\* exchange whose reply is a success carrying a response.
C10_TurnRaisedOnlyByFullSuccess ==
    /\ turnId = 1
    /\ [][ \/ turnId' = turnId
           \/ /\ turnId' = turnId + 1
              /\ \E i \in DOMAIN pending : Resolves(i) /\ FullySuccessful(i)
         ]_vars
---------------------------------------------------------------------------
(* C11 *)

\* s is an initial part of t
IsPrefix(s, t) == Len(s) <= Len(t) /\ SubSeq(t, 1, Len(s)) = s

\* C11: the transcript is append-only: in every step the transcript before
\* the step is an initial part of the transcript after it, so no Message is
\* edited, moved or removed, whatever the interleaving of sends and replies.
C11_TranscriptAppendOnly ==
    [][ IsPrefix(messages, messages') ]_vars

\* two exchanges that overlapped have both resolved, one of them failing
C11_Witness ==
    /\ overlapped
    /\ DOMAIN pending = {}
    /\ Len(messages) = 4
    /\ Senders("error") # {}
    /\ Senders("bot") # {}

---------------------------------------------------------------------------
(* C12 *)

\* the exchanges this step ends
Resolved == { i \in DOMAIN pending : Resolves(i) }

\* C12: no exchange is dropped silently and none answers twice: a step that
\* ends an exchange ends one exchange and appends exactly one Message, a bot
\* or an error Message; a coroutine leaves `pending` only in such a step; and
\* the transcript changes in no step other than a send or such a step.
C12_EveryExchangeAnswersOnce ==
    [][ /\ Cardinality(Resolved) <= 1
        /\ Resolved # {} =>
              /\ Len(messages') = Len(messages) + 1
              /\ IsPrefix(messages, messages')
              /\ messages'[Len(messages')].sender \in {"bot", "error"}
        /\ messages' # messages => (Sends \/ Resolved # {})
        /\ Sends => Resolved = {}
      ]_vars

\* two exchanges, one after the other: the first failed, the second succeeded
C12_Witness ==
    /\ ~overlapped
    /\ DOMAIN pending = {}
    /\ Len(messages) = 4
    /\ messages[2] = TheError
    /\ messages[4].sender = "bot"

---------------------------------------------------------------------------
(* C13 *)

\* the place in the transcript of the user Message of exchange i
UserMessageOf(i) ==
    { k \in Senders("user") : UserRank(k) = ExchangeRank(i) }

\* C13: while two exchanges are in flight together, the user Messages of
\* both are in the transcript, each with the text of its request, in the
\* order of the calls; and the Message a reply brings is appended at the end
\* of the transcript in the step the reply is handled, so the replies stand
\* behind both user Messages, in the order they arrive.
C13_EagerEchoesRepliesInArrivalOrder ==
    /\ [](\A i, j \in DOMAIN pending :
            i < j =>
              \E k \in UserMessageOf(i), l \in UserMessageOf(j) :
                  /\ k < l
                  /\ messages[k].text = fetchLog[i].body.user_message
                  /\ messages[l].text = fetchLog[j].body.user_message)
    /\ [][ \A i \in DOMAIN pending :
              Resolves(i) =>
                  /\ Len(messages') = Len(messages) + 1
                  /\ IsPrefix(messages, messages')
                  /\ messages'[Len(messages')].sender # "user"
         ]_vars

\* the second of two overlapping exchanges has been answered and the first
\* is still in flight: the replies arrive in the other order than the calls
C13_Witness ==
    /\ Cardinality(ChatRequests) = 2
    /\ \E i, j \in ChatRequests :
          /\ i < j
          /\ DOMAIN pending = {i}
          /\ fetchLog[i].body.user_message # fetchLog[j].body.user_message
          /\ Len(messages) = 3
          /\ messages[1].text = fetchLog[i].body.user_message
          /\ messages[2].text = fetchLog[j].body.user_message
          /\ messages[3].sender = "bot"
---------------------------------------------------------------------------
(* C14 *)

\* C14: the step that hands a message request to fetch() is the step that
\* appends the user Message with the text of the input; the user Message of
\* every request stays in the transcript whatever becomes of the request;
\* and the Message a reply brings is appended behind it.
C14_UserEchoAtTheCall ==
    /\ [](\A i \in ChatRequests :
            \E k \in UserMessageOf(i) :
                messages[k] = [ sender |-> "user",
                                text   |-> fetchLog[i].body.user_message ])
    /\ [][ /\ Sends =>
                 /\ messages' =
                       Append(messages,
                              [ sender |-> "user", text |-> Str(input) ])
                 /\ Len(fetchLog') = Len(fetchLog) + 1
           /\ \A i \in DOMAIN pending :
                 Resolves(i) =>
                     \E k \in UserMessageOf(i) :
                         /\ k < Len(messages')
                         /\ messages'[k] = messages[k]
                         /\ messages'[Len(messages')].sender # "user"
         ]_vars

\* one exchange, sent with blanks around the text, has failed
C14_Witness ==
    /\ calls = 1
    /\ Len(messages) = 2
    /\ messages[1] = [ sender |-> "user",
                       text   |-> Str(<< "U+00A0", "o", "k", "\f" >>) ]
    /\ messages[2] = TheError

---------------------------------------------------------------------------
(* C15 *)

DigitValue(c) == CHOOSE d \in 0 .. 9 : DigitChar[d + 1] = c

\* the number a sequence of decimal digits writes
RECURSIVE DecimalValue(_)
DecimalValue(chars) ==
    IF chars = << >> THEN 0
    ELSE 10 * DecimalValue(SubSeq(chars, 1, Len(chars) - 1))
            + DigitValue(chars[Len(chars)])

\* chars is the decimal numeral of n, without sign or leading zero
IsNumeralOf(chars, n) ==
    /\ Len(chars) >= 1
    /\ \A k \in DOMAIN chars : \E d \in 0 .. 9 : DigitChar[d + 1] = chars[k]
    /\ Len(chars) > 1 => chars[1] # "0"
    /\ DecimalValue(chars) = n

\* C15: the request a send hands to fetch() carries, as user_message, the
\* text of the input as it is (untrimmed) and, as client_turn_id, the string
\* that is the decimal numeral of the turn counter at that moment.
C15_EnvelopeCarriesTextAndTurn ==
    [][ Sends =>
          /\ SubSeq(fetchLog', 1, Len(fetchLog)) = fetchLog
          /\ Len(fetchLog') = Len(fetchLog) + 1
          /\ fetchLog'[Len(fetchLog')].body.user_message = Str(input)
          /\ fetchLog'[Len(fetchLog')].body.client_turn_id.type = "string"
          /\ IsNumeralOf(fetchLog'[Len(fetchLog')].body.client_turn_id.chars,
                         turnId)
      ]_vars

\* a second exchange sent after a successful first one: it carries turn 2
\* and the text with its blanks
C15_Witness ==
    \E i \in ChatRequests :
        /\ fetchLog[i].body.client_turn_id = Str(<< "2" >>)
        /\ fetchLog[i].body.user_message = Str(<< "U+00A0", "o", "k", "\f" >>)
        /\ turnId = 2

---------------------------------------------------------------------------
(* C16 *)

\* C16: the step that ends an exchange, with a bot or with an error Message,
\* leaves the stored session identifier, the loading flag and the session
\* coroutine as they were; and a send is permitted whenever the input holds
\* more than white space, whatever exchanges have failed before.
C16_ExchangeLeavesSession ==
    /\ []( ( /\ Mounted
             /\ ~WhiteSpaceOnly(input)
             /\ calls < MaxCalls
             /\ Cardinality(ChatRequests) < MaxSends )
           => ENABLED (changeEvent /\ Sends) )
    /\ [][ \A i \in DOMAIN pending :
              Resolves(i) =>
                  /\ chatSessionId' = chatSessionId
                  /\ loading' = loading
                  /\ session' = session
         ]_vars

\* the session is Ready, an exchange has failed, and another one has been
\* sent after it
C16_Witness ==
    /\ Ready
    /\ chatSessionId = Str(SessionIdText)
    /\ Len(messages) = 3
    /\ messages[2] = TheError
    /\ messages[3].sender = "user"
    /\ Cardinality(DOMAIN pending) = 1
---------------------------------------------------------------------------
(* C17 *)

\* C17: once startSession has run to its end, on the success path or on a
\* failure path, the loading flag is false; and once false it is never true
\* again.
C17_LoadingClearedForGood ==
    /\ [](session.pc = "done" => ~loading)
    /\ [][ ~loading => ~loading' ]_vars

\* session start has failed, and the view has been used since: loading is
\* false
C17_Witness ==
    /\ session.pc = "done"
    /\ chatSessionId = Null
    /\ ~loading
    /\ Len(messages) = 2
    /\ messages[2].sender = "bot"

---------------------------------------------------------------------------
(* C18 *)

\* C18: in every reachable state the turn counter is 1 plus the number of
\* bot Messages, and there are as many user Messages as bot Messages, error
\* Messages and exchanges in flight together.
C18_CounterAndTranscriptAgree ==
    /\ turnId = 1 + Cardinality(Senders("bot"))
    /\ Cardinality(Senders("user")) =
          Cardinality(Senders("bot")) + Cardinality(Senders("error"))
              + Cardinality(DOMAIN pending)
    /\ Len(messages) =
          Cardinality(Senders("user")) + Cardinality(Senders("bot"))
              + Cardinality(Senders("error"))

\* of two overlapping exchanges one has been answered by the bot and the
\* other is still in flight
C18_Witness ==
    /\ overlapped
    /\ Cardinality(Senders("bot")) = 1
    /\ Cardinality(DOMAIN pending) = 1
    /\ Cardinality(Senders("user")) = 2
    /\ turnId = 2

---------------------------------------------------------------------------
(* C19 *)

\* every exchange invoked so far has been answered with a response text
AllAnsweredWithText ==
    /\ AllSucceeded
    /\ \A k \in Senders("bot") : messages[k].text.type = "string"

\* C19: any two message requests that have both completed successfully
\* carry different client_turn_id values.
C19_DistinctTurnIds ==
    (Ready /\ AllAnsweredWithText) =>
        \A i, j \in ChatRequests :
            i # j =>
                fetchLog[i].body.client_turn_id
                    # fetchLog[j].body.client_turn_id

---------------------------------------------------------------------------
(* C20 *)

\* C20: an invocation of the send handler leaves the input as it is; the
\* step that ends an exchange empties the input when the exchange was
\* successful (a success reply carrying a response) and leaves it as it is
\* when the exchange failed.
C20_InputClearedOnlyOnSuccess ==
    [][ /\ calls' # calls => input' = input
        /\ \A i \in DOMAIN pending :
              Resolves(i) =>
                  IF FullySuccessful(i)
                  THEN input' = << >>
                  ELSE input' = input
      ]_vars

=============================================================================
